---- MODULE Spec2Model ----
(***************************************************************************)
(* State-machine model of src/App.jsx (FAIZAN FILE STORE): the React       *)
(* component App, its state hooks, its two effects, its event handlers,    *)
(* the asynchronous continuations of handleFileUpload and handleDelete,    *)
(* and the remote collection 'files' the component reads through           *)
(* onSnapshot and writes through addDoc / deleteDoc.                       *)
(***************************************************************************)
EXTENDS Integers, Sequences, FiniteSets, TLC

(* ------------------------------ bounds -------------------------------- *)

\* Number of documents ever created in the collection (by anyone).
MaxDocs == 2
\* Number of subscriptions the data-fetching effect opens in one run.
MaxSubs == 2
\* Number of deleteDoc calls awaited at the same time.
MaxPendingDeletes == 1

(* ------------------------- program constants -------------------------- *)

ADMIN_PIN == "432272"

\* The size ceiling of handleFileUpload.
MaxUploadBytes == 700000

\* Strings typed into the PIN field.
Pins == {ADMIN_PIN, "43227", ""}

\* Values the auth listener reports: no user, or a signed-in user object.
NoUser == "null"
Users == {NoUser, "u1"}

\* Files offered to the file input: name, MIME type, size, content.
FilePool ==
  { [name |-> "b.png", type |-> "image/png",  size |-> 700000, content |-> "img"],
    [name |-> "c.bin", type |-> "",           size |-> 700001, content |-> "bin"],
    [name |-> "d.mp4", type |-> "video/mp4",  size |-> 900000, content |-> "vid"] }

\* A placeholder for "no file" in history records.
NoFile == [name |-> "", type |-> "", size |-> 0, content |-> ""]

VARIABLES
  mounted,         \* the component App is mounted
  user,            \* useState(null)
  files,           \* useState([])
  isAdmin,         \* useState(false)
  showLoginModal,  \* useState(false)
  pinInput,        \* useState("")
  uploading,       \* useState(false)
  toast,           \* useState(null)
  reading,         \* the FileReader of handleFileUpload: <<>> or <<file>>
  addReq,          \* the addDoc call awaited in reader.onload: <<>> or <<request>>
  delReqs,         \* the ids of the deleteDoc calls awaited in handleDelete
  subs,            \* the handles onSnapshot has returned, in order
  effectSub,       \* the handle the data-fetching effect's cleanup closes over (0: none)
  registry,        \* the documents of the remote collection
  clock,           \* the server's clock (serverTimestamp)
  nextId,          \* the next document id the server assigns
  lastSnapshot,    \* history: the sequence the last snapshot callback received
  ownAdds,         \* history: this client's creates committed since that snapshot
  ownDels,         \* history: this client's deletes committed since that snapshot
  extCommits       \* history: another client's create or delete was committed since then

vars == << mounted, user, files, isAdmin, showLoginModal, pinInput, uploading, toast,
           reading, addReq, delReqs, subs, effectSub, registry, clock, nextId,
           lastSnapshot, ownAdds, ownDels, extCommits >>

ui      == << isAdmin, showLoginModal, pinInput >>
upload  == << uploading, reading, addReq >>
remote  == << registry, clock, nextId >>
history == << lastSnapshot, ownAdds, ownDels, extCommits >>
subscr  == << subs, effectSub >>

(* ------------------------------ helpers ------------------------------- *)

NoToast == [message |-> "", arg |-> "", type |-> ""]

\* showToast(message, type = "success"): setToast({message, type}).  The
\* timer it starts is the action ToastTimeout.  A state setter of an
\* unmounted component changes nothing.
showToast(message, arg, type) ==
  toast' = IF mounted THEN [message |-> message, arg |-> arg, type |-> type] ELSE toast

\* reader.readAsDataURL(file): the data URL "data:<type>;base64,<payload>".
DataURL(file) == << "data:", file.type, ";base64,", file.content >>

\* Variant of UploadPayload that stores the bare content instead of reader.result.
UploadPayloadRaw(file, base64String) ==
  [name |-> file.name, type |-> file.type, size |-> file.size, data |-> << file.content >>]

\* The object handed to addDoc; createdAt is set by the server.
UploadPayload(file, base64String) ==
  [name |-> file.name, type |-> file.type, size |-> file.size, data |-> base64String]

\* Variant of TooLarge that also rejects a file of exactly the ceiling.
TooLargeInclusive(file) == file.size >= MaxUploadBytes

\* file.size > 700000
TooLarge(file) == file.size > MaxUploadBytes

\* Variant of PinMatches that accepts every non-empty string.
PinNonEmpty(pin) == pin # ""

\* pinInput === ADMIN_PIN
PinMatches(pin) == pin = ADMIN_PIN

\* Variant of Before for orderBy('createdAt', 'asc').
BeforeAscending(d, e) ==
  \/ d.createdAt < e.createdAt
  \/ d.createdAt = e.createdAt /\ d.id < e.id

\* orderBy('createdAt', 'desc'): d comes before e.
Before(d, e) ==
  \/ d.createdAt > e.createdAt
  \/ d.createdAt = e.createdAt /\ d.id > e.id

RECURSIVE Query(_)
\* query(collection(...), orderBy('createdAt', 'desc')) over a set of documents.
Query(docs) ==
  IF docs = {} THEN << >>
  ELSE LET first == CHOOSE d \in docs : \A e \in docs \ {d} : Before(d, e)
       IN  << first >> \o Query(docs \ {first})

\* snapshot.docs.map(doc => ({id: doc.id, ...doc.data()}))
SnapshotData(docs) ==
  [i \in 1..Len(docs) |->
     [id |-> docs[i].id, name |-> docs[i].name, type |-> docs[i].type,
      size |-> docs[i].size, data |-> docs[i].data, createdAt |-> docs[i].createdAt]]

Ids(seq) == { seq[i].id : i \in 1..Len(seq) }

\* History of this client's commits since the last snapshot: how many (0, 1,
\* or 2 for "more than one") and, when exactly one, which.
NoCommit == [n |-> 0, id |-> 0, file |-> NoFile]
Record(h, id, file) ==
  IF h.n = 0 THEN [n |-> 1, id |-> id, file |-> file]
             ELSE [NoCommit EXCEPT !.n = 2]


(* --------------------------- subscriptions ---------------------------- *)

\* The handle onSnapshot returns for a listener registered while `u` was the user.
NewSub(u) == [state |-> "live", unsubs |-> 0, openedFor |-> u]

\* unsubscribe(): the handle stops delivering.
Unsubscribe(s, h) ==
  [s EXCEPT ![h] = [@ EXCEPT !.state = "closed", !.unsubs = @ + 1]]

\* Variant of EffectCleanup that never unsubscribes.
EffectCleanupNone(s, h) == s

\* The cleanup of the data-fetching effect: return () => unsubscribe().
\* An effect run that returned early (no user) has no cleanup.
EffectCleanup(s, h) == IF h # 0 THEN Unsubscribe(s, h) ELSE s

\* if (!user) return;  -- the effect subscribes only with a user.
EffectSubscribes(u) == u # NoUser

(* ------------------------------- Init --------------------------------- *)

Init ==
  /\ mounted = TRUE
  /\ user = NoUser
  /\ files = << >>
  /\ isAdmin = FALSE
  /\ showLoginModal = FALSE
  /\ pinInput = ""
  /\ uploading = FALSE
  /\ toast = NoToast
  /\ reading = << >>
  /\ addReq = << >>
  /\ delReqs = {}
  /\ subs = << >>
  /\ effectSub = 0
  /\ registry = {}
  /\ clock = 1
  /\ nextId = 1
  /\ lastSnapshot = << >>
  /\ ownAdds = NoCommit
  /\ ownDels = NoCommit
  /\ extCommits = FALSE

(* ----------------------- effects and listeners ------------------------ *)

\* onAuthStateChanged's callback: setUser(currentUser).  A changed user
\* re-renders and re-runs the data-fetching effect (dependency [user]):
\* first the previous run's cleanup, then the effect body.
AuthStateChanged(currentUser) ==
  /\ mounted
  /\ (currentUser # user /\ EffectSubscribes(currentUser)) => Len(subs) < MaxSubs
  /\ user' = currentUser
  /\ IF currentUser = user
       THEN UNCHANGED subscr
       ELSE LET cleaned == EffectCleanup(subs, effectSub)
            IN  IF EffectSubscribes(currentUser)
                  THEN /\ subs' = Append(cleaned, NewSub(currentUser))
                       /\ effectSub' = Len(subs) + 1
                  ELSE /\ subs' = cleaned
                       /\ effectSub' = 0
  /\ UNCHANGED << mounted, files, ui, upload, toast, delReqs, remote, history >>

\* The component is torn down: both effects' cleanups run (the auth listener
\* and the snapshot listener are unsubscribed) and the component's state is
\* discarded; the model shows discarded state as the hooks' initial values.
\* The FileReader and the awaited calls are not cancelled.
Unmount ==
  /\ mounted
  /\ mounted' = FALSE
  /\ subs' = EffectCleanup(subs, effectSub)
  /\ effectSub' = 0
  /\ user' = NoUser
  /\ files' = << >>
  /\ isAdmin' = FALSE
  /\ showLoginModal' = FALSE
  /\ pinInput' = ""
  /\ uploading' = FALSE
  /\ toast' = NoToast
  /\ UNCHANGED << reading, addReq, delReqs, remote, history >>

\* What the snapshot callback stores: setFiles(filesData) replaces the list
\* `prev` by the mapped documents of the snapshot.
SnapshotFiles(prev, docs) == SnapshotData(docs)

\* onSnapshot's first callback.  The listener fires when it is registered and
\* whenever the query's result changes; the model lets a live listener fire
\* at any time (a delivery that repeats the last result changes no state of
\* the program).
SnapshotDelivered ==
  /\ effectSub # 0
  /\ subs[effectSub].state = "live"
  /\ files' = SnapshotFiles(files, Query(registry))
  /\ lastSnapshot' = Query(registry)
  /\ ownAdds' = NoCommit
  /\ ownDels' = NoCommit
  /\ extCommits' = FALSE
  /\ UNCHANGED << mounted, user, ui, upload, toast, delReqs, subscr, remote >>

\* Variant of FilesAfterError that clears the list.
FilesAfterErrorCleared(f) == << >>

\* What the error callback leaves in `files` (it does not call setFiles).
FilesAfterError(f) == f

\* onSnapshot's second callback: console.error and showToast.  The listener
\* is dead afterwards; its handle stays with the effect's cleanup.
SubscriptionError ==
  /\ effectSub # 0
  /\ subs[effectSub].state = "live"
  /\ subs' = [subs EXCEPT ![effectSub].state = "errored"]
  /\ files' = FilesAfterError(files)
  /\ showToast("Error loading files", "", "error")
  /\ UNCHANGED << mounted, user, ui, upload, delReqs, effectSub, remote, history >>

\* setTimeout(() => setToast(null), 3000): a timer is pending whenever a
\* toast is shown, and a timer that finds no toast changes nothing.
ToastTimeout ==
  /\ mounted
  /\ toast # NoToast
  /\ toast' = NoToast
  /\ UNCHANGED << mounted, user, files, ui, upload, delReqs, subscr, remote, history >>

(* ----------------------------- admin gate ----------------------------- *)

\* The header button while not admin: () => setShowLoginModal(true).
OpenLoginModal ==
  /\ mounted
  /\ ~isAdmin
  /\ showLoginModal' = TRUE
  /\ UNCHANGED << mounted, user, files, isAdmin, pinInput, upload, toast, delReqs,
                  subscr, remote, history >>

\* The modal's X button: setShowLoginModal(false); setPinInput("").
CloseLoginModal ==
  /\ mounted
  /\ showLoginModal
  /\ showLoginModal' = FALSE
  /\ pinInput' = ""
  /\ UNCHANGED << mounted, user, files, isAdmin, upload, toast, delReqs,
                  subscr, remote, history >>

\* The PIN field's onChange: setPinInput(e.target.value).
SetPinInput(value) ==
  /\ mounted
  /\ showLoginModal
  /\ value # pinInput
  /\ pinInput' = value
  /\ UNCHANGED << mounted, user, files, isAdmin, showLoginModal, upload, toast, delReqs,
                  subscr, remote, history >>

\* The modal form's onSubmit.
handleAdminLogin ==
  /\ mounted
  /\ showLoginModal
  /\ IF PinMatches(pinInput)
       THEN /\ isAdmin' = TRUE
            /\ showLoginModal' = FALSE
            /\ pinInput' = ""
            /\ showToast("Welcome Admin! Access Granted.", "", "success")
       ELSE /\ showToast("Incorrect PIN. Access Denied.", "", "error")
            /\ UNCHANGED ui
  /\ UNCHANGED << mounted, user, files, upload, delReqs, subscr, remote, history >>

\* The header button while admin.
handleLogout ==
  /\ mounted
  /\ isAdmin
  /\ isAdmin' = FALSE
  /\ showToast("Logged out of Admin Panel", "", "success")
  /\ UNCHANGED << mounted, user, files, showLoginModal, pinInput, upload, delReqs,
                  subscr, remote, history >>


(* ------------------------------- upload ------------------------------- *)

\* The file input's onChange, up to reader.readAsDataURL(file).  The input
\* is rendered only while isAdmin and is disabled while uploading.
\* `selected` is e.target.files: << >> or << file >>.
handleFileUpload(selected) ==
  /\ mounted
  /\ isAdmin
  /\ ~uploading
  /\ IF selected = << >>
       THEN UNCHANGED << upload, toast >>
       ELSE IF TooLarge(selected[1])
         THEN /\ showToast("File too large! Max 700KB for this demo.", "", "error")
              /\ UNCHANGED upload
         ELSE /\ uploading' = TRUE
              /\ reading' = selected
              /\ UNCHANGED << addReq, toast >>
  /\ UNCHANGED << mounted, user, files, ui, delReqs, subscr, remote, history >>

\* reader.onload up to the await: addDoc(collection, {...}) is submitted.
ReaderOnload ==
  /\ reading # << >>
  /\ LET file == reading[1]
     IN  addReq' = << [payload |-> UploadPayload(file, DataURL(file)), file |-> file] >>
  /\ reading' = << >>
  /\ UNCHANGED << mounted, user, files, ui, uploading, toast, delReqs, subscr,
                  remote, history >>

\* The read fails: the reader fires 'error', for which no handler is set.
ReaderError ==
  /\ reading # << >>
  /\ reading' = << >>
  /\ UNCHANGED << mounted, user, files, ui, uploading, addReq, toast, delReqs, subscr,
                  remote, history >>

\* The document the collection holds for an addDoc payload: the server
\* assigns the id and resolves createdAt: serverTimestamp().
StoredDoc(id, payload, ts) ==
  [id |-> id, name |-> payload.name, type |-> payload.type, size |-> payload.size,
   data |-> payload.data, createdAt |-> ts]

\* finally { setUploading(false) }
UploadingAfterSettle(u) == IF mounted THEN FALSE ELSE u

\* await addDoc resolves: the server has stored the document; the rest of
\* the try block runs, then finally.
AddDocResolved ==
  /\ addReq # << >>
  /\ nextId <= MaxDocs
  /\ clock' = clock + 1
  /\ registry' = registry \cup { StoredDoc(nextId, addReq[1].payload, clock + 1) }
  /\ nextId' = nextId + 1
  /\ ownAdds' = Record(ownAdds, nextId, addReq[1].file)
  /\ showToast("File uploaded successfully!", "", "success")
  /\ uploading' = UploadingAfterSettle(uploading)
  /\ addReq' = << >>
  /\ UNCHANGED << mounted, user, files, ui, reading, delReqs, subscr,
                  lastSnapshot, ownDels, extCommits >>

\* await addDoc rejects: the catch block, then finally.
AddDocFailed ==
  /\ addReq # << >>
  /\ showToast("Upload failed.", "", "error")
  /\ uploading' = UploadingAfterSettle(uploading)
  /\ addReq' = << >>
  /\ UNCHANGED << mounted, user, files, ui, reading, delReqs, subscr, remote, history >>

(* ------------------------------- delete ------------------------------- *)

\* Variant of FilesAfterDelete that removes the record from the list at once.
FilesAfterDeleteOptimistic(f, fileId) ==
  LET Other(r) == r.id # fileId IN SelectSeq(f, Other)

\* What handleDelete leaves in `files` (it does not call setFiles).
FilesAfterDelete(f, fileId) == f

\* Variant of RegistryAfterDelete that deletes nothing.
RegistryAfterDeleteKeep(docs, fileId) == docs

\* deleteDoc(doc(..., 'files', fileId)) on the collection.
RegistryAfterDelete(docs, fileId) == { d \in docs : d.id # fileId }

\* The delete button of a listed record (rendered only while isAdmin), up to
\* the await: window.confirm, then deleteDoc(doc(..., fileId)) is submitted.
\* delReqs holds the ids of the awaited calls.
handleDelete(fileId, confirmed) ==
  /\ mounted
  /\ isAdmin
  /\ fileId \in Ids(files)
  /\ confirmed => Cardinality(delReqs \cup {fileId}) <= MaxPendingDeletes
  /\ delReqs' = IF confirmed THEN delReqs \cup {fileId} ELSE delReqs
  /\ files' = IF confirmed THEN FilesAfterDelete(files, fileId) ELSE files
  /\ UNCHANGED << mounted, user, ui, upload, toast, subscr, remote, history >>

\* await deleteDoc resolves: the server has deleted the document (deleting an
\* absent document succeeds); showToast("File removed.").
DeleteDocResolved(fileId) ==
  /\ fileId \in delReqs
  /\ registry' = RegistryAfterDelete(registry, fileId)
  /\ ownDels' = IF \E d \in registry : d.id = fileId
                  THEN Record(ownDels, fileId, NoFile)
                  ELSE ownDels
  /\ showToast("File removed.", "", "success")
  /\ delReqs' = delReqs \ {fileId}
  /\ UNCHANGED << mounted, user, files, ui, upload, subscr, clock, nextId,
                  lastSnapshot, ownAdds, extCommits >>

\* await deleteDoc rejects: the catch block.
DeleteDocFailed(fileId) ==
  /\ fileId \in delReqs
  /\ showToast("Could not delete file.", "", "error")
  /\ delReqs' = delReqs \ {fileId}
  /\ UNCHANGED << mounted, user, files, ui, upload, subscr, remote, history >>

(* ------------------------------ download ------------------------------ *)

\* The download button of a listed record: a link to file.data is clicked.
handleDownload(file) ==
  /\ mounted
  /\ \E i \in 1..Len(files) : files[i] = file
  /\ showToast("Downloading", file.name, "success")
  /\ UNCHANGED << mounted, user, files, ui, upload, delReqs, subscr, remote, history >>

(* ------------------- other instances of the application --------------- *)

\* Another visitor's instance uploads a file to the shared public collection.
ExternalAdd(file) ==
  /\ nextId <= MaxDocs
  /\ ~TooLarge(file)
  /\ clock' = clock + 1
  /\ registry' = registry \cup
       { StoredDoc(nextId, UploadPayload(file, DataURL(file)), clock + 1) }
  /\ nextId' = nextId + 1
  /\ extCommits' = TRUE
  /\ UNCHANGED << mounted, user, files, ui, upload, toast, delReqs, subscr,
                  lastSnapshot, ownAdds, ownDels >>

\* Another visitor's instance deletes a document of the shared collection.
ExternalDelete(fileId) ==
  /\ \E d \in registry : d.id = fileId
  /\ registry' = RegistryAfterDelete(registry, fileId)
  /\ extCommits' = TRUE
  /\ UNCHANGED << mounted, user, files, ui, upload, toast, delReqs, subscr, clock, nextId,
                  lastSnapshot, ownAdds, ownDels >>

(* ---------------------------- specification --------------------------- *)

Next ==
  \/ \E currentUser \in Users : AuthStateChanged(currentUser)
  \/ Unmount
  \/ SnapshotDelivered
  \/ SubscriptionError
  \/ ToastTimeout
  \/ OpenLoginModal
  \/ CloseLoginModal
  \/ \E value \in Pins : SetPinInput(value)
  \/ handleAdminLogin
  \/ handleLogout
  \/ \E selected \in {<< >>} \cup { << f >> : f \in FilePool } : handleFileUpload(selected)
  \/ ReaderOnload
  \/ ReaderError
  \/ AddDocResolved
  \/ AddDocFailed
  \/ \E fileId \in 1..MaxDocs, confirmed \in BOOLEAN : handleDelete(fileId, confirmed)
  \/ \E fileId \in delReqs : DeleteDocResolved(fileId)
  \/ \E fileId \in delReqs : DeleteDocFailed(fileId)
  \/ \E i \in 1..Len(files) : handleDownload(files[i])
  \/ \E file \in FilePool : ExternalAdd(file)
  \/ \E fileId \in 1..MaxDocs : ExternalDelete(fileId)

Spec == Init /\ [][Next]_vars

(* ------------------------------ properties ---------------------------- *)

\* The subscription the effect holds is delivering.
Listening == effectSub # 0 /\ subs[effectSub].state = "live"

Sorted(seq) ==
  \A i, j \in 1..Len(seq) : i < j => seq[i].createdAt >= seq[j].createdAt

\* The records of seq whose id is in S, in seq's order.
Restrict(seq, S) == LET Kept(r) == r.id \in S IN SelectSeq(seq, Kept)

\* Record r is document `id` holding what was submitted for `file`.
HoldsSubmitted(r, id, file) ==
  /\ r.id = id
  /\ r.name = file.name
  /\ r.type = file.type
  /\ r.size = file.size
  /\ r.data = << "data:", file.type, ";base64,", file.content >>

\* next is prev plus exactly one record, the one committed in h.
OneMore(prev, next, h) ==
  /\ Len(next) = Len(prev) + 1
  /\ h.id \notin Ids(prev)
  /\ \E i \in 1..Len(next) : HoldsSubmitted(next[i], h.id, h.file)

\* C1: an upload attempt with a file larger than 700000 bytes submits nothing
\* to the registry (no create, no read that would lead to one), leaves
\* uploading false and the file list unchanged; a file of exactly 700000
\* bytes passes the check and the upload starts.
C1_SizeCheck ==
  [][\A f \in FilePool :
       handleFileUpload(<< f >>) =>
         IF f.size > 700000
           THEN /\ UNCHANGED << addReq, reading, delReqs, registry, files >>
                /\ ~uploading
                /\ ~uploading'
           ELSE /\ uploading'
                /\ reading' = << f >>]_vars

\* C1 witness: an oversized file was rejected, then a file of exactly 700000
\* bytes was accepted and is being read.
C1_Witness ==
  /\ toast.message = "File too large! Max 700KB for this demo."
  /\ uploading
  /\ reading # << >>
  /\ reading[1].size = 700000

\* C2: while the component is mounted the file list equals the last snapshot
\* delivered (the empty list before the first); only a snapshot delivery
\* changes the list (and teardown, which discards it): no step of upload,
\* delete, download, login or logout does.
C2_FilesIsLastSnapshot ==
  /\ [](mounted => files = lastSnapshot)
  /\ [][files' # files => (SnapshotDelivered \/ Unmount)]_vars

\* C2 witness: a delete of a listed record has succeeded and the list still
\* shows the record, because no snapshot has arrived since.
C2_Witness ==
  /\ mounted
  /\ toast.message = "File removed."
  /\ ownDels.n = 1
  /\ ownDels.id \in Ids(files)
  /\ files = lastSnapshot

\* C3: the admin flag starts false; a login with the fixed PIN takes it from
\* false to true; a login with any other string leaves it false; logout
\* takes it from true to false and is not offered while it is false; no
\* other step of the mounted component changes it.
C3_AdminSession ==
  /\ ~isAdmin
  /\ [](~isAdmin => ~ENABLED handleLogout)
  /\ [][/\ (handleAdminLogin /\ pinInput = "432272") => (~isAdmin /\ isAdmin')
        /\ (handleAdminLogin /\ pinInput # "432272") => (~isAdmin /\ ~isAdmin')
        /\ handleLogout => (isAdmin /\ ~isAdmin')
        /\ (~isAdmin /\ isAdmin') => handleAdminLogin
        /\ (isAdmin /\ ~isAdmin') => (handleLogout \/ Unmount)]_vars

\* C3 witness: the correct PIN was submitted and the session is Admin.
C3_Witness ==
  /\ isAdmin
  /\ toast.message = "Welcome Admin! Access Granted."
  /\ ~showLoginModal

\* C4 as stated: after a successful create by this client, the next snapshot
\* has exactly one more record than the one before it, holding the submitted
\* name, type, size and data.
C4_Original ==
  [][(SnapshotDelivered /\ ownAdds.n = 1) => OneMore(files, files', ownAdds)]_vars

\* C4: if a successful create by this client is the only change committed to
\* the registry between two consecutive snapshots, the later snapshot has
\* exactly one more record than the earlier one, the new record holds the
\* submitted name, type, size and data, and the earlier records are all kept.
C4_OnlyChange ==
  [][(SnapshotDelivered /\ ownAdds.n = 1 /\ ownDels.n = 0 /\ ~extCommits) =>
       /\ OneMore(files, files', ownAdds)
       /\ Restrict(files', Ids(files)) = files]_vars

\* C4 witness: this client's create is the only change since the last
\* snapshot, the upload has reported success, and the listener is delivering.
C4_Witness ==
  /\ Listening
  /\ ownAdds.n = 1
  /\ ownDels.n = 0
  /\ ~extCommits
  /\ toast.message = "File uploaded successfully!"
  /\ Len(files) = 1

C6_SubscriptionError ==
  [][SubscriptionError =>
       /\ files' = files
       /\ toast' = [message |-> "Error loading files", arg |-> "", type |-> "error"]
       /\ UNCHANGED << mounted, user, ui, upload, delReqs, remote, effectSub >>
       /\ Len(subs') = Len(subs)
       /\ \A h \in 1..Len(subs') : subs'[h].state # "live"]_vars

\* C6 witness: the subscription has failed while the list held records, and
\* the list still holds them.
C6_Witness ==
  /\ effectSub # 0
  /\ subs[effectSub].state = "errored"
  /\ toast.message = "Error loading files"
  /\ Len(files) >= 1

\* C7 as stated: the list is always sorted by createdAt descending, and a
\* record that is new in a snapshot is the first record of that snapshot.
C7_Original ==
  /\ []Sorted(files)
  /\ [][SnapshotDelivered =>
          \A i \in 1..Len(files') : files'[i].id \notin Ids(files) => i = 1]_vars

\* C7: the list is always sorted by createdAt descending, and a record that
\* is new in a snapshot comes before every record the previous snapshot
\* already had (it is first unless a record created after it is also new).
C7_NewBeforeOld ==
  /\ []Sorted(files)
  /\ [][SnapshotDelivered =>
          \A i, j \in 1..Len(files') :
            (files'[i].id \notin Ids(files) /\ files'[j].id \in Ids(files)) => i < j]_vars

\* C7 witness: the list holds one record, the registry holds it and a record
\* created later, and the listener is delivering.
C7_Witness ==
  /\ Listening
  /\ Len(files) = 1
  /\ Cardinality(registry) = 2
  /\ \E d \in registry : d.id = files[1].id
  /\ \E d \in registry : d.createdAt > files[1].createdAt

\* C8: every subscription was opened for a signed-in user; at most one is
\* live, and it is the one the effect holds; a handle the effect no longer
\* holds was unsubscribed exactly once and the held one not yet; a handle is
\* unsubscribed only when the user changes or the component is torn down,
\* and a subscription is opened only in a step that leaves a user signed in.
C8_Subscriptions ==
  /\ [](\A h \in 1..Len(subs) :
          /\ subs[h].openedFor # NoUser
          /\ subs[h].unsubs <= 1
          /\ subs[h].state = "live" => h = effectSub
          /\ subs[h].unsubs = IF h = effectSub THEN 0 ELSE 1)
  /\ [](effectSub # 0 => (mounted /\ user = subs[effectSub].openedFor))
  /\ [][/\ Len(subs') >= Len(subs)
        /\ Len(subs') > Len(subs) => (user' # NoUser /\ user' # user)
        /\ \A h \in 1..Len(subs) :
             subs'[h].unsubs # subs[h].unsubs => (user' # user \/ Unmount)]_vars

\* C8 witness: the user changed twice; the first subscription was
\* unsubscribed once and the second is live.
C8_Witness ==
  /\ Len(subs) = 2
  /\ subs[1].state = "closed"
  /\ subs[1].unsubs = 1
  /\ subs[2].state = "live"
  /\ effectSub = 2

\* C9 as stated: every create or delete this client submits is submitted
\* while the admin flag is true.
C9_Original ==
  [][(mounted /\ ((addReq' # addReq /\ addReq' # << >>) \/ delReqs' \ delReqs # {}))
       => isAdmin]_vars

\* C10 as stated, its safety part: while uploading is true an operation is
\* in flight whose completion resets it (the file read or the awaited
\* addDoc); otherwise the flag can never become false again.
C10_Original ==
  (mounted /\ uploading) => (reading # << >> \/ addReq # << >>)

====
